---- MODULE Spec2Model ----
(***************************************************************************)
(* Stream enrichment and windowed aggregation pipeline of                  *)
(* src/demo/process_streams.py: the three continuous queries               *)
(* (processed_query, archive_query, metrics_query) over the Kafka table    *)
(* sensor_source, as the Flink runtime the script configures executes      *)
(* them.  Time is in seconds of event-time; readings are integers.         *)
(***************************************************************************)
EXTENDS Integers, Sequences, FiniteSets, Bags, TLC

\* ------------------------------------------------------------------ bounds
MaxOffset == 2
MaxRestarts == 1
MaxClock == 1
MaxMinutes == 2
MaxBuffer == 1
MaxTicks == 2
MaxRows == 1

\* ------------------------------------------------------- program constants
\* WATERMARK FOR event_time AS event_time - INTERVAL '5' SECOND
Lateness == 5
\* TUMBLE(event_time, INTERVAL '1' MINUTE)
WindowSize == 60
\* SUM(CASE WHEN battery_level < 20 THEN 1 ELSE 0 END)
LowBattery == 20

\* ------------------------------------------------------------------ inputs
Partitions == {1, 2}
Buildings == {"Building_001", "Building_002"}
EventTimes == {10, 50, 65}
\* What a record reports besides its readings: an anomaly, or a low battery.
Conditions ==
    { [is_anomaly |-> TRUE, battery_level |-> 20],
      [is_anomaly |-> FALSE, battery_level |-> 15] }
Readings ==
    { [temperature |-> 26, humidity |-> 75, pressure |-> 1013] }

\* A record of topic sensor-data as table sensor_source reads it.  The key of
\* a record is its sensor_id, so one sensor's records share a partition.
SensorEvents(p) ==
    { [sensor_id        |-> p,
       event_time       |-> t,
       temperature      |-> r.temperature,
       humidity         |-> r.humidity,
       pressure         |-> r.pressure,
       is_anomaly       |-> c.is_anomaly,
       building         |-> b,
       battery_level    |-> c.battery_level] :
         t \in EventTimes, r \in Readings, c \in Conditions,
         b \in Buildings }

\* The watermark before any record was read (Long.MIN_VALUE in the runtime):
\* a time before every watermark an event can produce.
MinWatermark == -1

Max(a, b) == IF a >= b THEN a ELSE b

RECURSIVE SetMin(_)
SetMin(S) ==
    LET x == CHOOSE y \in S : TRUE
    IN  IF S = {x} THEN x
        ELSE LET m == SetMin(S \ {x}) IN IF x <= m THEN x ELSE m

RECURSIVE SetMax(_)
SetMax(S) ==
    LET x == CHOOSE y \in S : TRUE
    IN  IF S = {x} THEN x
        ELSE LET m == SetMax(S \ {x}) IN IF x >= m THEN x ELSE m

\* process_sensor_data starts one job per INSERT statement.
Jobs == {"processed", "archive", "metrics"}

\* The tasks of the DAG mlops_demo_pipeline.
Tasks ==
    { "validate_infrastructure", "create_kafka_topics", "start_data_generation",
      "start_flink_processing", "monitor_data_flow", "train_ml_models",
      "validate_and_promote_models", "generate_performance_report",
      "cleanup_resources" }

\* ------------------------------------------------------------------- state
VARIABLES
    mOffset,      \* metrics job: records read per partition of sensor-data
    partWM,       \* metrics job: watermark of each partition of sensor_source
    maxSeen,      \* largest event_time read per partition (history)
    mWM,          \* metrics job: current watermark of the window aggregation
    acc,          \* open window accumulators, keyed by <<window_start, building>>
    rows,         \* the rows grouped under each key so far (history)
    leftOut,      \* keys of the records the aggregation left out (history)
    metricsOut,   \* records written to metrics_sink (topic sensor-metrics)
    topic,        \* records of sensor-data a restart can read again, per partition
    mCheckpoint,  \* metrics job: last completed checkpoint
    restarts,     \* restarts of a job so far
    restoredFrom, \* what the last restart resumed from (history)
    clock,        \* processing time: the wall clock PROCTIME() reads
    pOffset,      \* enrichment job: records read per partition of sensor-data
    pCheckpoint,  \* enrichment job: last completed checkpoint
    processedOut, \* records written to processed_sink (processed-sensor-data)
    aOffset,      \* archive job: records read per partition of sensor-data
    archiveOut,   \* rows archive_query has written to minio_archive
    aInProgress,  \* minio_archive: rows in part files still in progress
    aFiles,       \* minio_archive: rows in finished part files
    aPending,     \* minio_archive: partitions awaiting commit, with creation time
    aMarked,      \* minio_archive: partitions holding a success file
    aCheckpoint,  \* archive job: last completed checkpoint
    loaded,       \* partitions load_sensor_data has read (history)
    fOffset,      \* records each of the three INSERT jobs has read
    inflight,     \* records a job has read and not yet written to its sink
    sinkBlocked,  \* the sinks that accept no write at the moment
    pendingCkpts, \* checkpoints triggered and not yet completed or failed
    ticks,        \* checkpoint interval ticks so far
    failedCkpts,  \* checkpoints that failed so far
    jobState,     \* "running", or "terminated" once the pod was deleted
    published,    \* the JSON values generate_data.py has sent to sensor-data
    sourceRows,   \* the rows sensor_source has made of them
    taskState,    \* mlops_demo_pipeline: state of each task of the DAG run
    tries,        \* mlops_demo_pipeline: attempts each task has started
    pods,         \* the pods the DAG run has left in the cluster
    validation,   \* validate_and_promote_models: what it was given and returned
    trainPc,      \* train_model.py main: the step it is at
    trainData,    \* train_model.py main: what it found, where df came from
    trainFiles,   \* train_model.py main: files in its working directory
    trainRuns     \* train_model.py main: the MLflow runs it has completed

metricsVars == <<mOffset, partWM, maxSeen, mWM, acc, rows, leftOut, metricsOut>>
recoveryVars == <<topic, mCheckpoint, restarts, restoredFrom>>
enrichVars == <<clock, pOffset, pCheckpoint, processedOut, aOffset, archiveOut>>
archiveVars == <<aInProgress, aFiles, aPending, aMarked, aCheckpoint, loaded>>
runtimeVars ==
    <<fOffset, inflight, sinkBlocked, pendingCkpts, ticks, failedCkpts, jobState>>
streamVars ==
    <<metricsVars, recoveryVars, enrichVars, archiveVars, runtimeVars>>
producerVars == <<published, sourceRows>>
dagVars == <<taskState, tries, pods>>
mlVars == <<validation, trainPc, trainData, trainFiles, trainRuns>>
batchVars == <<producerVars, dagVars, mlVars>>
vars ==
    <<metricsVars, recoveryVars, enrichVars, archiveVars, runtimeVars, batchVars>>

\* ------------------------------------------------------- metrics_query
\* Variant: the window start rounded up to the next multiple of the size.
TumbleStart_RoundUp(t) ==
    ((t + WindowSize - 1) \div WindowSize) * WindowSize

\* TUMBLE_START / TUMBLE_END of the window an event-time falls into.
TumbleStart(t) == (t \div WindowSize) * WindowSize
TumbleEnd(t) == TumbleStart(t) + WindowSize

WindowKey(e) == <<TumbleStart(e.event_time), e.building>>
KeyStart(k) == k[1]
KeyEnd(k) == k[1] + WindowSize
KeyBuilding(k) == k[2]

\* The value of a division by zero: never a count, an average or a rate.
Undefined == -1

\* ROUND(num / den, digits) on non-negative values, as fixed point with
\* scale = 10^digits: half-up.
Round(num, den, scale) ==
    IF den = 0 THEN Undefined ELSE (2 * num * scale + den) \div (2 * den)

EmptyAcc ==
    [sensor_count |-> 0, sum_temperature |-> 0, sum_humidity |-> 0,
     sum_pressure |-> 0, anomaly_count |-> 0, low_battery_count |-> 0]

\* Variant: battery_level <= 20 counts as low.
Accumulate_BatteryInclusive(a, e) ==
    [sensor_count      |-> a.sensor_count + 1,
     sum_temperature   |-> a.sum_temperature + e.temperature,
     sum_humidity      |-> a.sum_humidity + e.humidity,
     sum_pressure      |-> a.sum_pressure + e.pressure,
     anomaly_count     |-> a.anomaly_count + (IF e.is_anomaly THEN 1 ELSE 0),
     low_battery_count |-> a.low_battery_count
                             + (IF e.battery_level <= LowBattery THEN 1 ELSE 0)]

\* One row added to the aggregates of its group.
Accumulate(a, e) ==
    [sensor_count      |-> a.sensor_count + 1,
     sum_temperature   |-> a.sum_temperature + e.temperature,
     sum_humidity      |-> a.sum_humidity + e.humidity,
     sum_pressure      |-> a.sum_pressure + e.pressure,
     anomaly_count     |-> a.anomaly_count + (IF e.is_anomaly THEN 1 ELSE 0),
     low_battery_count |-> a.low_battery_count
                             + (IF e.battery_level < LowBattery THEN 1 ELSE 0)]

\* Variant: sensor_count is the COUNT of the rows that are not anomalous.
Summary_CountsNormalRows(k, a) ==
    [window_start      |-> KeyStart(k),
     window_end        |-> KeyEnd(k),
     building          |-> KeyBuilding(k),
     sensor_count      |-> a.sensor_count - a.anomaly_count,
     avg_temperature   |-> Round(a.sum_temperature, a.sensor_count, 100),
     avg_humidity      |-> Round(a.sum_humidity, a.sensor_count, 100),
     avg_pressure      |-> Round(a.sum_pressure, a.sensor_count, 100),
     anomaly_count     |-> a.anomaly_count,
     anomaly_rate      |-> Round(a.anomaly_count,
                                 a.sensor_count - a.anomaly_count, 1000),
     low_battery_count |-> a.low_battery_count]

\* The row metrics_query selects for a group.  Averages are in hundredths,
\* anomaly_rate in thousandths.
Summary(k, a) ==
    [window_start      |-> KeyStart(k),
     window_end        |-> KeyEnd(k),
     building          |-> KeyBuilding(k),
     sensor_count      |-> a.sensor_count,
     avg_temperature   |-> Round(a.sum_temperature, a.sensor_count, 100),
     avg_humidity      |-> Round(a.sum_humidity, a.sensor_count, 100),
     avg_pressure      |-> Round(a.sum_pressure, a.sensor_count, 100),
     anomaly_count     |-> a.anomaly_count,
     anomaly_rate      |-> Round(a.anomaly_count, a.sensor_count, 1000),
     low_battery_count |-> a.low_battery_count]

\* Variant: the watermark follows the last record read.
NextPartWM_Latest(w, e) == e.event_time - Lateness

\* The watermark a partition's generator holds after reading e.
NextPartWM(w, e) == Max(w, e.event_time - Lateness)

\* The number of late records the queries report: process_sensor_data
\* declares no late-data counter, table or side output.
LateDataCount == 0

\* Variants: no window is ever late; a window is late only past its end.
IsWindowLate_Never(k, w) == FALSE
IsWindowLate_Strict(k, w) == KeyEnd(k) < w

\* A window whose end the aggregation's watermark has reached accepts no row.
IsWindowLate(k, w) == KeyEnd(k) <= w

\* Variant: a window fires once the watermark reaches its start.
Fires_AtWindowStart(k, w) == KeyStart(k) <= w

\* A window fires when the watermark reaches its end.
Fires(k, w) == KeyEnd(k) <= w

\* Variant: the fastest partition sets the watermark.
GlobalWatermark_Fastest(pw) == SetMax({pw[p] : p \in Partitions})

\* The watermark of an operator: the minimum over its inputs.
GlobalWatermark(pw) == SetMin({pw[p] : p \in Partitions})

\* No checkpoint has completed yet.
NoCheckpoint == [completed |-> FALSE]

Init ==
    /\ mOffset = [p \in Partitions |-> 0]
    /\ partWM = [p \in Partitions |-> MinWatermark]
    /\ maxSeen = [p \in Partitions |-> MinWatermark]
    /\ mWM = MinWatermark
    /\ acc = << >>
    /\ rows = [k \in {} |-> EmptyBag]
    /\ leftOut = {}
    /\ metricsOut = EmptyBag
    /\ topic = [p \in Partitions |-> << >>]
    /\ mCheckpoint = NoCheckpoint
    /\ restarts = 0
    /\ restoredFrom = "none"
    /\ clock = 0
    /\ pOffset = [p \in Partitions |-> 0]
    /\ pCheckpoint = NoCheckpoint
    /\ processedOut = EmptyBag
    /\ aOffset = [p \in Partitions |-> 0]
    /\ archiveOut = EmptyBag
    /\ aInProgress = EmptyBag
    /\ aFiles = EmptyBag
    /\ aPending = << >>
    /\ aMarked = {}
    /\ aCheckpoint = NoCheckpoint
    /\ loaded = {}
    /\ fOffset = [j \in Jobs |-> 0]
    /\ inflight = [j \in Jobs |-> 0]
    /\ sinkBlocked = {}
    /\ pendingCkpts = {}
    /\ ticks = 0
    /\ failedCkpts = 0
    /\ jobState = "running"
    /\ published = {}
    /\ sourceRows = {}
    /\ taskState = [t \in Tasks |-> "none"]
    /\ tries = [t \in Tasks |-> 0]
    /\ pods = {}
    /\ validation = [called |-> FALSE]
    /\ trainPc = "start"
    /\ trainData = [found |-> "nothing yet", frame |-> "none"]
    /\ trainFiles = {}
    /\ trainRuns = {}

\* The metrics job reads the next record e of partition p: the partition's
\* watermark generator sees it, and the row joins the group of its window
\* unless that window is already behind the watermark.
MRead(p, e) ==
    LET k == WindowKey(e)
    IN  /\ mOffset[p] < MaxOffset
        /\ mOffset' = [mOffset EXCEPT ![p] = @ + 1]
        /\ partWM' = [partWM EXCEPT ![p] = NextPartWM(@, e)]
        /\ maxSeen' = [maxSeen EXCEPT ![p] = Max(@, e.event_time)]
        /\ IF IsWindowLate(k, mWM)
           THEN /\ leftOut' = leftOut \cup {k}
                /\ UNCHANGED <<acc, rows>>
           ELSE /\ UNCHANGED leftOut
                /\ acc' = IF k \in DOMAIN acc
                          THEN [acc EXCEPT ![k] = Accumulate(@, e)]
                          ELSE (k :> Accumulate(EmptyAcc, e)) @@ acc
                /\ rows' = IF k \in DOMAIN rows
                           THEN [rows EXCEPT ![k] = @ (+) SetToBag({e})]
                           ELSE (k :> SetToBag({e})) @@ rows
        /\ UNCHANGED <<mWM, metricsOut>>

MConsume ==
    /\ \E p \in Partitions : \E e \in SensorEvents(p) : MRead(p, e)
    /\ UNCHANGED <<recoveryVars, enrichVars, archiveVars, runtimeVars, batchVars>>

\* The sources' watermarks reach the window aggregation: its watermark
\* becomes the minimum over the partitions, every window that ends at or
\* before it fires, writes its row to metrics_sink and is evicted.
MAdvanceWatermark ==
    LET w == GlobalWatermark(partWM)
        fired == {k \in DOMAIN acc : Fires(k, w)}
    IN  /\ w > mWM
        /\ mWM' = w
        /\ metricsOut' = metricsOut (+) SetToBag({Summary(k, acc[k]) : k \in fired})
        /\ acc' = [k \in (DOMAIN acc) \ fired |-> acc[k]]
        /\ UNCHANGED <<mOffset, partWM, maxSeen, rows, leftOut>>
        /\ UNCHANGED <<recoveryVars, enrichVars, archiveVars, runtimeVars, batchVars>>

Next ==
    \/ MConsume
    \/ MAdvanceWatermark

Spec == Init /\ [][Next]_vars

\* ------------------------------------------------ checkpoints and restarts
\* The records the recovery runs read: one building, no low battery.
ReplayEvents(p) ==
    {e \in SensorEvents(p) :
        e.building = "Building_001" /\ e.is_anomaly}

\* A record of the topic whose value is not a JSON object of the declared
\* columns ('format' = 'json').
Malformed == [malformed |-> TRUE]

\* The next record of partition p, not yet read by the metrics job, is the
\* malformed one.
AtMalformed(p) ==
    /\ mOffset[p] < Len(topic[p])
    /\ topic[p][mOffset[p] + 1] = Malformed

\* The metrics job reads partition p where a restart can replay it: a record
\* already in the log is read again, a new record, one of E[p], is appended
\* to the log.
ReadLog(E) ==
    \E p \in Partitions :
        IF mOffset[p] < Len(topic[p])
        THEN /\ ~AtMalformed(p)
             /\ MRead(p, topic[p][mOffset[p] + 1])
             /\ UNCHANGED <<recoveryVars, enrichVars, archiveVars, runtimeVars, batchVars>>
        ELSE \E e \in E[p] :
                /\ MRead(p, e)
                /\ topic' = [topic EXCEPT ![p] = Append(@, e)]
                /\ UNCHANGED <<mCheckpoint, restarts, restoredFrom, enrichVars, archiveVars, runtimeVars, batchVars>>

RConsume == ReadLog([p \in Partitions |-> ReplayEvents(p)])

\* execution.checkpointing.interval = 30s: a checkpoint completes, holding the
\* source offsets and the state of the window aggregation.  The watermark is
\* not part of it.
MCheckpoint ==
    LET c == [completed |-> TRUE, offset |-> mOffset, acc |-> acc,
              rows |-> rows, leftOut |-> leftOut]
    IN  /\ c # mCheckpoint
        /\ mCheckpoint' = c
        /\ UNCHANGED <<metricsVars, topic, restarts, restoredFrom, enrichVars, archiveVars, runtimeVars, batchVars>>

\* The job fails and restarts from its last completed checkpoint: offsets and
\* accumulators are those of the checkpoint, the watermarks start over, and
\* the records already written to metrics_sink stay in the topic (the sink
\* declares no exactly-once delivery).  Without a completed checkpoint the
\* job starts empty at the latest offsets ('scan.startup.mode').
Failover ==
    /\ restarts < MaxRestarts
    /\ restarts' = restarts + 1
    /\ partWM' = [p \in Partitions |-> MinWatermark]
    /\ maxSeen' = [p \in Partitions |-> MinWatermark]
    /\ mWM' = MinWatermark
    /\ restoredFrom' = IF mCheckpoint.completed THEN "checkpoint" ELSE "latest"
    /\ IF mCheckpoint.completed
       THEN /\ mOffset' = mCheckpoint.offset
            /\ acc' = mCheckpoint.acc
            /\ rows' = mCheckpoint.rows
            /\ leftOut' = mCheckpoint.leftOut
       ELSE /\ mOffset' = [p \in Partitions |-> Len(topic[p])]
            /\ acc' = << >>
            /\ rows' = [k \in {} |-> EmptyBag]
            /\ leftOut' = {}
    /\ UNCHANGED <<metricsOut, topic, mCheckpoint, enrichVars, archiveVars>>

MRestore ==
    /\ Failover
    /\ UNCHANGED <<runtimeVars, batchVars>>

NextRecovery ==
    \/ RConsume
    \/ MAdvanceWatermark
    \/ MCheckpoint
    \/ MRestore

SpecRecovery == Init /\ [][NextRecovery]_vars

\* --------------------------------------- processed_query and archive_query
Abs(x) == IF x < 0 THEN 0 - x ELSE x

TempTrend_Inclusive(t) ==
    IF t >= 25 THEN "HOT" ELSE IF t <= 18 THEN "COLD" ELSE "NORMAL"

TempTrend(t) ==
    IF t > 25 THEN "HOT" ELSE IF t < 18 THEN "COLD" ELSE "NORMAL"

HumidityCategory_Inclusive(h) ==
    IF h >= 70 THEN "HIGH" ELSE IF h <= 30 THEN "LOW" ELSE "MODERATE"

HumidityCategory(h) ==
    IF h > 70 THEN "HIGH" ELSE IF h < 30 THEN "LOW" ELSE "MODERATE"

ComfortIndex_Signed(t, h) == 200 - (t - 22) * 4 - (h - 45)

\* 100 - ABS(temperature - 22) * 2 - ABS(humidity - 45) * 0.5, in halves.
ComfortIndex(t, h) == 200 - Abs(t - 22) * 4 - Abs(h - 45)

\* ABS(temperature - 22) / 22 + ABS(humidity - 50) / 50
\*   + ABS(pressure - 1013) / 1013, as the numerator over 22 * 50 * 1013.
AnomalyScore(t, h, pr) ==
    Abs(t - 22) * (50 * 1013) + Abs(h - 50) * (22 * 1013)
        + Abs(pr - 1013) * (22 * 50)

\* Variant: the comfort index drifts with the processing time.
Enrich_ClockDependent(e, now) ==
    [sensor_id         |-> e.sensor_id,
     event_time        |-> e.event_time,
     temperature       |-> e.temperature,
     humidity          |-> e.humidity,
     pressure          |-> e.pressure,
     temp_trend        |-> TempTrend(e.temperature),
     humidity_category |-> HumidityCategory(e.humidity),
     comfort_index     |-> ComfortIndex(e.temperature, e.humidity) - now,
     anomaly_score     |-> AnomalyScore(e.temperature, e.humidity, e.pressure),
     is_anomaly        |-> e.is_anomaly,
     processing_time   |-> now]

\* The row both queries select for record e read at processing time now.
Enrich(e, now) ==
    [sensor_id         |-> e.sensor_id,
     event_time        |-> e.event_time,
     temperature       |-> e.temperature,
     humidity          |-> e.humidity,
     pressure          |-> e.pressure,
     temp_trend        |-> TempTrend(e.temperature),
     humidity_category |-> HumidityCategory(e.humidity),
     comfort_index     |-> ComfortIndex(e.temperature, e.humidity),
     anomaly_score     |-> AnomalyScore(e.temperature, e.humidity, e.pressure),
     is_anomaly        |-> e.is_anomaly,
     processing_time   |-> now]

\* DATE_FORMAT(event_time, 'yyyy-MM-dd') as the day number and
\* DATE_FORMAT(event_time, 'HH') as the hour of that day.
PartitionDate(t) == t \div 86400
PartitionHour(t) == (t % 86400) \div 3600

ArchiveRow_ByProcessingTime(e, now) ==
    [row |-> Enrich(e, now),
     partition_date |-> PartitionDate(now),
     partition_hour |-> PartitionHour(now)]

ArchiveRow(e, now) ==
    [row            |-> Enrich(e, now),
     partition_date |-> PartitionDate(e.event_time),
     partition_hour |-> PartitionHour(e.event_time)]

EnrichReadings ==
    { [event_time |-> 10, temperature |-> 26, humidity |-> 75, pressure |-> 1013],
      [event_time |-> 3610, temperature |-> 18, humidity |-> 30, pressure |-> 950] }

\* The partitions the enrichment runs read records from.
EnrichPartitions == {1}

\* The records the enrichment runs read.
EnrichEvents(p) ==
    { [sensor_id        |-> p,
       event_time       |-> r.event_time,
       temperature      |-> r.temperature,
       humidity         |-> r.humidity,
       pressure         |-> r.pressure,
       is_anomaly       |-> (r.temperature > 25),
       building         |-> "Building_001",
       battery_level    |-> LowBattery] :
         r \in EnrichReadings }

\* Wall-clock time passes.
Tick ==
    /\ clock < MaxClock
    /\ clock' = clock + 1
    /\ UNCHANGED <<metricsVars, recoveryVars, pOffset, pCheckpoint,
                   processedOut, aOffset, archiveOut, archiveVars, runtimeVars, batchVars>>

\* The next record of partition p for a job at offset off: a record already
\* in the log, or a new one, which joins the log.
ReadsRecord(p, off, e) ==
    /\ off < MaxOffset
    /\ IF off < Len(topic[p])
       THEN e = topic[p][off + 1] /\ UNCHANGED topic
       ELSE e \in EnrichEvents(p) /\ topic' = [topic EXCEPT ![p] = Append(@, e)]

\* processed_query: the enrichment job reads a record and writes its row.
PConsume ==
    \E p \in EnrichPartitions :
        \E e \in EnrichEvents(p) \cup {topic[p][i] : i \in 1..Len(topic[p])} :
            /\ ReadsRecord(p, pOffset[p], e)
            /\ pOffset' = [pOffset EXCEPT ![p] = @ + 1]
            /\ processedOut' = processedOut (+) SetToBag({Enrich(e, clock)})
            /\ UNCHANGED <<metricsVars, mCheckpoint, restarts, restoredFrom, clock,
                           pCheckpoint, aOffset, archiveOut, archiveVars, runtimeVars, batchVars>>

\* archive_query: the archive job reads a record and writes its row, which
\* the filesystem sink appends to the part file in progress of its partition.
AConsume ==
    \E p \in EnrichPartitions :
        \E e \in EnrichEvents(p) \cup {topic[p][i] : i \in 1..Len(topic[p])} :
            /\ ReadsRecord(p, aOffset[p], e)
            /\ aOffset' = [aOffset EXCEPT ![p] = @ + 1]
            /\ archiveOut' = archiveOut (+) SetToBag({ArchiveRow(e, clock)})
            /\ aInProgress' = aInProgress (+) SetToBag({ArchiveRow(e, clock)})
            /\ UNCHANGED <<metricsVars, mCheckpoint, restarts, restoredFrom, clock,
                           pCheckpoint, pOffset, processedOut>>
            /\ UNCHANGED <<aFiles, aPending, aMarked, aCheckpoint, loaded, runtimeVars, batchVars>>

\* A checkpoint of the enrichment job completes: it holds the source offsets.
PCheckpoint ==
    LET c == [completed |-> TRUE, offset |-> pOffset]
    IN  /\ c # pCheckpoint
        /\ pCheckpoint' = c
        /\ UNCHANGED <<metricsVars, recoveryVars, clock, pOffset,
                       processedOut, aOffset, archiveOut, archiveVars, runtimeVars, batchVars>>

\* The enrichment job fails and restarts from its last completed checkpoint;
\* the records already written to processed_sink stay in the topic.
PRestore ==
    /\ restarts < MaxRestarts
    /\ restarts' = restarts + 1
    /\ pOffset' = IF pCheckpoint.completed
                  THEN pCheckpoint.offset
                  ELSE [p \in Partitions |-> Len(topic[p])]
    /\ restoredFrom' = IF pCheckpoint.completed THEN "checkpoint" ELSE "latest"
    /\ UNCHANGED <<metricsVars, topic, mCheckpoint, clock, pCheckpoint,
                   processedOut, aOffset, archiveOut, archiveVars, runtimeVars, batchVars>>

NextEnrich ==
    \/ Tick
    \/ PConsume
    \/ AConsume
    \/ PCheckpoint
    \/ PRestore

SpecEnrich == Init /\ [][NextEnrich]_vars

\* ------------------------------------------- the derived columns at work
\* Readings on, next to and between the thresholds of the CASE expressions
\* and the centres of the comfort index.
Temperatures == {17, 18, 22, 25, 26}
Humidities == {29, 30, 45, 70, 71, 75}

FeatureEvents ==
    { [sensor_id        |-> 1,
       event_time       |-> 10,
       temperature      |-> t,
       humidity         |-> h,
       pressure         |-> 1013,
       is_anomaly       |-> FALSE,
       building         |-> "Building_001",
       battery_level    |-> 100] :
         t \in Temperatures, h \in Humidities }

\* processed_query selects the row of a record.
FProcessed ==
    /\ pOffset[1] < MaxRows
    /\ \E e \in FeatureEvents :
          processedOut' = processedOut (+) SetToBag({Enrich(e, clock)})
    /\ pOffset' = [pOffset EXCEPT ![1] = @ + 1]
    /\ UNCHANGED <<metricsVars, recoveryVars, clock, pCheckpoint, aOffset,
                   archiveOut, archiveVars, runtimeVars, batchVars>>

\* archive_query selects the row of a record.
FArchive ==
    /\ aOffset[1] < MaxRows
    /\ \E e \in FeatureEvents :
          /\ archiveOut' = archiveOut (+) SetToBag({ArchiveRow(e, clock)})
          /\ aInProgress' = aInProgress (+) SetToBag({ArchiveRow(e, clock)})
    /\ aOffset' = [aOffset EXCEPT ![1] = @ + 1]
    /\ UNCHANGED <<metricsVars, recoveryVars, clock, pOffset, pCheckpoint,
                   processedOut, runtimeVars, batchVars>>
    /\ UNCHANGED <<aFiles, aPending, aMarked, aCheckpoint, loaded>>

NextFeatures ==
    \/ FProcessed
    \/ FArchive

SpecFeatures == Init /\ [][NextFeatures]_vars

\* ------------------------------------------ minio_archive and its reader
\* 'sink.partition-commit.delay' = '1 min', in seconds.
CommitDelay == 60

\* PARTITIONED BY (partition_date, partition_hour): the directory of a row.
PartitionOf(r) == <<r.partition_date, r.partition_hour>>
PartitionsOf(B) == {PartitionOf(r) : r \in BagToSet(B)}

\* The rows of bag B that lie in partition q.
FilesOf(B, q) ==
    LET S == {r \in BagToSet(B) : PartitionOf(r) = q}
    IN  [r \in S |-> CopiesIn(r, B)]

\* 'sink.partition-commit.trigger' = 'process-time': a pending partition is
\* committed once processing time has passed its creation time by the delay.
Committable(pending, now) ==
    {q \in DOMAIN pending : now > pending[q] + CommitDelay}

\* A minute of wall-clock time passes.
TickMinute ==
    /\ clock < MaxMinutes * CommitDelay
    /\ clock' = clock + CommitDelay
    /\ UNCHANGED <<metricsVars, recoveryVars, pOffset, pCheckpoint,
                   processedOut, aOffset, archiveOut, archiveVars, runtimeVars, batchVars>>

\* A checkpoint of the archive job completes: it holds the source offsets,
\* the part files in progress are finished, their partitions await commit,
\* and every partition due gets its success file
\* ('sink.partition-commit.policy.kind' = 'success-file').
ACheckpoint ==
    LET registered == [q \in (DOMAIN aPending) \cup PartitionsOf(aInProgress) |->
                          IF q \in DOMAIN aPending THEN aPending[q] ELSE clock]
        due == Committable(registered, clock)
        left == [q \in (DOMAIN registered) \ due |-> registered[q]]
        c == [completed |-> TRUE, offset |-> aOffset, pending |-> left]
    IN  /\ c # aCheckpoint \/ aInProgress # EmptyBag \/ due # {}
        /\ aFiles' = aFiles (+) aInProgress
        /\ aInProgress' = EmptyBag
        /\ aPending' = left
        /\ aMarked' = aMarked \cup due
        /\ aCheckpoint' = c
        /\ UNCHANGED <<metricsVars, recoveryVars, enrichVars, loaded, runtimeVars, batchVars>>

\* The archive job fails and restarts from its last completed checkpoint:
\* the part files in progress are discarded, finished files and success
\* files stay.  Without a completed checkpoint it starts at the latest
\* offsets.
ARestore ==
    /\ restarts < MaxRestarts
    /\ restarts' = restarts + 1
    /\ restoredFrom' = IF aCheckpoint.completed THEN "checkpoint" ELSE "latest"
    /\ aOffset' = IF aCheckpoint.completed
                  THEN aCheckpoint.offset
                  ELSE [p \in Partitions |-> Len(topic[p])]
    /\ aPending' = IF aCheckpoint.completed THEN aCheckpoint.pending ELSE << >>
    /\ aInProgress' = EmptyBag
    /\ UNCHANGED <<metricsVars, topic, mCheckpoint, clock, pOffset, pCheckpoint,
                   processedOut, archiveOut, aFiles, aMarked, aCheckpoint, loaded,
                   runtimeVars, batchVars>>

\* DataLoader.load_sensor_data: every object under a partition_date prefix
\* whose key ends in .parquet is read.
LoadSensorData ==
    LET read == {[partition |-> q, marked |-> q \in aMarked] :
                    q \in PartitionsOf(aFiles)}
    IN  /\ read # {}
        /\ loaded' = loaded \cup read
        /\ loaded' # loaded
        /\ UNCHANGED <<metricsVars, recoveryVars, enrichVars>>
        /\ UNCHANGED <<aInProgress, aFiles, aPending, aMarked, aCheckpoint, runtimeVars, batchVars>>

NextArchive ==
    \/ TickMinute
    \/ AConsume
    \/ ACheckpoint
    \/ ARestore
    \/ LoadSensorData

SpecArchive == Init /\ [][NextArchive]_vars

\* ---------------------------------------------- checkpoint coordination
\* Only execution.checkpointing.interval is set: the number of concurrent
\* checkpoints and of tolerated checkpoint failures keep their defaults.
MaxConcurrentCheckpoints == 1
TolerableFailedCheckpoints == 0

MayTrigger_Always(pending) == TRUE

\* A new checkpoint starts only below the limit of concurrent checkpoints.
MayTrigger(pending) == Cardinality(pending) < MaxConcurrentCheckpoints

\* The state of the metrics job as checkpoint number id captures it.
Snapshot(id) ==
    [id |-> id,
     state |-> [completed |-> TRUE, offset |-> mOffset, acc |-> acc,
                rows |-> rows, leftOut |-> leftOut]]

\* The records the runs with checkpoints in flight read.
CheckpointEvents(p) == {e \in ReplayEvents(p) : e.event_time # 50}

CConsume == ReadLog([p \in Partitions |-> CheckpointEvents(p)])

\* The checkpoint interval elapses: a checkpoint is triggered unless the
\* limit of concurrent checkpoints forbids it.
CheckpointTick ==
    /\ ticks < MaxTicks
    /\ ticks' = ticks + 1
    /\ pendingCkpts' = IF MayTrigger(pendingCkpts)
                       THEN pendingCkpts \cup {Snapshot(ticks + 1)}
                       ELSE pendingCkpts
    /\ UNCHANGED <<fOffset, inflight, sinkBlocked, failedCkpts, jobState, batchVars>>
    /\ UNCHANGED <<metricsVars, recoveryVars, enrichVars, archiveVars>>

\* A pending checkpoint completes and becomes the last completed one.
CheckpointComplete ==
    \E c \in pendingCkpts :
        /\ mCheckpoint' = c.state
        /\ pendingCkpts' = pendingCkpts \ {c}
        /\ UNCHANGED <<fOffset, inflight, sinkBlocked, ticks, failedCkpts, jobState, batchVars>>
        /\ UNCHANGED <<metricsVars, topic, restarts, restoredFrom, enrichVars,
                       archiveVars>>

\* A pending checkpoint fails.  More failures in a row than are tolerated
\* fail the job, which restarts from the last completed checkpoint.
CheckpointFail ==
    \E c \in pendingCkpts :
        /\ failedCkpts' = failedCkpts + 1
        /\ IF 1 > TolerableFailedCheckpoints
           THEN /\ Failover
                /\ pendingCkpts' = {}
           ELSE /\ pendingCkpts' = pendingCkpts \ {c}
                /\ UNCHANGED <<metricsVars, recoveryVars, enrichVars, archiveVars>>
        /\ UNCHANGED <<fOffset, inflight, sinkBlocked, ticks, jobState, batchVars>>

NextCheckpoint ==
    \/ CConsume
    \/ MAdvanceWatermark
    \/ CheckpointTick
    \/ CheckpointComplete
    \/ CheckpointFail

SpecCheckpoint == Init /\ [][NextCheckpoint]_vars

\* -------------------------------------------------------- malformed records
\* A producer writes a record that is not valid JSON to partition p; the
\* runs here see one such record.
CorruptArrives ==
    /\ \A p \in Partitions : \A i \in DOMAIN topic[p] : topic[p][i] # Malformed
    /\ \E p \in Partitions :
          /\ mOffset[p] = Len(topic[p])
          /\ Len(topic[p]) < MaxOffset
          /\ topic' = [topic EXCEPT ![p] = Append(@, Malformed)]
    /\ UNCHANGED <<mCheckpoint, restarts, restoredFrom>>
    /\ UNCHANGED <<metricsVars, enrichVars, archiveVars, runtimeVars, batchVars>>

\* The source reads the malformed record: the table declares 'format' =
\* 'json' and leaves 'json.ignore-parse-errors' at its default of false, so
\* the deserializer raises and the job fails over.  Its offset is the one of
\* the restore, never the one behind the record it could not parse.
DeserializeFails ==
    /\ \E p \in Partitions : AtMalformed(p)
    /\ Failover
    /\ UNCHANGED <<runtimeVars, batchVars>>

NextCorrupt ==
    \/ CConsume
    \/ MAdvanceWatermark
    \/ MCheckpoint
    \/ CorruptArrives
    \/ DeserializeFails

SpecCorrupt == Init /\ [][NextCorrupt]_vars

\* ------------------------------------------------------- cleanup_resources
\* While its pod lives the metrics job reads, fires windows and checkpoints.
SRun ==
    /\ jobState = "running"
    /\ (CConsume \/ MAdvanceWatermark \/ MCheckpoint)

\* cleanup_resources deletes the pod flink-stream-processor.  main installs
\* no signal handler and requests no savepoint: the process ends where it
\* is, and nothing is drained, flushed or checkpointed on the way.
Shutdown ==
    /\ jobState = "running"
    /\ jobState' = "terminated"
    /\ UNCHANGED <<fOffset, inflight, sinkBlocked, pendingCkpts, ticks, failedCkpts, batchVars>>
    /\ UNCHANGED <<metricsVars, recoveryVars, enrichVars, archiveVars>>

\* The next run starts the pod again: main builds the tables and submits new
\* jobs, which restore from no earlier checkpoint and start with empty state
\* at the latest offsets ('scan.startup.mode').
Relaunch ==
    /\ jobState = "terminated"
    /\ restarts < MaxRestarts
    /\ jobState' = "running"
    /\ restarts' = restarts + 1
    /\ restoredFrom' = "latest"
    /\ mCheckpoint' = NoCheckpoint
    /\ mOffset' = [p \in Partitions |-> Len(topic[p])]
    /\ partWM' = [p \in Partitions |-> MinWatermark]
    /\ maxSeen' = [p \in Partitions |-> MinWatermark]
    /\ mWM' = MinWatermark
    /\ acc' = << >>
    /\ rows' = [k \in {} |-> EmptyBag]
    /\ leftOut' = {}
    /\ UNCHANGED <<metricsOut, topic, enrichVars, archiveVars>>
    /\ UNCHANGED <<fOffset, inflight, sinkBlocked, pendingCkpts, ticks, failedCkpts, batchVars>>

NextShutdown ==
    \/ SRun
    \/ Shutdown
    \/ Relaunch

SpecShutdown == Init /\ [][NextShutdown]_vars

\* ------------------------------------- generate_data.py to sensor_source
\* The columns CREATE TABLE sensor_source declares.
SourceColumns ==
    { "sensor_id", "event_time", "temperature", "humidity", "pressure",
      "is_anomaly", "building", "floor", "room", "model",
      "firmware_version", "battery_level" }

SensorIds == {1, 2}
Timestamps == {10, 65}

\* generate_sensor_reading: the dictionary the generator returns for sensor
\* sid at wall-clock time t; the time is under 'timestamp', the place under
\* 'location' and the device under 'device_info'.
GenerateSensorReading(sid, t, anomaly, battery) ==
    [ sensor_id   |-> sid,
      timestamp   |-> t,
      temperature |-> IF anomaly THEN 35 ELSE 20,
      humidity    |-> IF anomaly THEN 70 ELSE 50,
      pressure    |-> 1013,
      is_anomaly  |-> anomaly,
      location    |-> [building |-> sid, floor |-> 1, room |-> 101],
      device_info |-> [model |-> "SensorPro-X1", firmware_version |-> "v1.0.0",
                       battery_level |-> battery] ]

\* A column of a row: NULL, or a value.
Null == [null |-> TRUE]
Value(v) == [null |-> FALSE, value |-> v]

\* 'format' = 'json': a column takes the top-level attribute of its own
\* name; an attribute no column is named after is ignored, and a column
\* with no attribute is NULL ('json.fail-on-missing-field' is not set).
DeserializeJson(json) ==
    [c \in SourceColumns |->
        IF c \in DOMAIN json THEN Value(json[c]) ELSE Null]

\* send_data: the generator publishes one reading.
SendData ==
    /\ \E sid \in SensorIds, t \in Timestamps, anomaly \in BOOLEAN,
          battery \in {100} :
          published' = published \cup
                         {GenerateSensorReading(sid, t, anomaly, battery)}
    /\ published' # published
    /\ UNCHANGED <<sourceRows, streamVars, dagVars, mlVars>>

\* sensor_source reads a published record.
ScanSource ==
    /\ \E json \in published :
          sourceRows' = sourceRows \cup {DeserializeJson(json)}
    /\ sourceRows' # sourceRows
    /\ UNCHANGED <<published, streamVars, dagVars, mlVars>>

NextProducer ==
    \/ SendData
    \/ ScanSource

SpecProducer == Init /\ [][NextProducer]_vars

\* ---------------------------------------------------- mlops_demo_pipeline
\* default_args: 'retries': 2.
Retries == 2

\* The tasks directly upstream of t: the >> chain, and for
\* generate_performance_report also the tasks whose results it takes as
\* arguments.
Upstream_Unordered(t) == {}

Upstream(t) ==
    CASE t = "validate_infrastructure" -> {}
      [] t = "create_kafka_topics" -> {"validate_infrastructure"}
      [] t = "start_data_generation" -> {"create_kafka_topics"}
      [] t = "start_flink_processing" -> {"create_kafka_topics"}
      [] t = "monitor_data_flow" ->
            {"start_data_generation", "start_flink_processing"}
      [] t = "train_ml_models" -> {"monitor_data_flow"}
      [] t = "validate_and_promote_models" -> {"train_ml_models"}
      [] t = "generate_performance_report" ->
            {"validate_infrastructure", "monitor_data_flow",
             "validate_and_promote_models"}
      [] t = "cleanup_resources" -> {"generate_performance_report"}

\* The trigger rule of t: all_success unless the task sets one.
TriggerRule(t) ==
    IF t = "cleanup_resources" THEN "all_done" ELSE "all_success"

\* The states in which a task instance is finished.
Finished == {"success", "failed", "upstream_failed"}

\* The scheduler may queue t.
Runnable(t) ==
    IF TriggerRule(t) = "all_done"
    THEN \A u \in Upstream(t) : taskState[u] \in Finished
    ELSE \A u \in Upstream(t) : taskState[u] = "success"

\* The tasks whose command or callable can end in an error: a raise that
\* nothing catches, or a script whose last command can fail.
\* monitor_data_flow and validate_and_promote_models catch every exception,
\* generate_performance_report only formats its arguments, and the script
\* of cleanup_resources ends with an echo.
Fallible ==
    { "validate_infrastructure", "create_kafka_topics", "start_data_generation",
      "start_flink_processing", "train_ml_models" }

\* The pod a task leaves behind (is_delete_operator_pod=False).
PodOf(t) ==
    CASE t = "start_data_generation" -> {"sensor-data-generator"}
      [] t = "start_flink_processing" -> {"flink-stream-processor"}
      [] OTHER -> {}

\* The scheduler starts an attempt of t.
TaskStart(t) ==
    /\ taskState[t] \in {"none", "up_for_retry"}
    /\ Runnable(t)
    /\ taskState' = [taskState EXCEPT ![t] = "running"]
    /\ tries' = [tries EXCEPT ![t] = @ + 1]
    /\ pods' = pods \cup PodOf(t)
    /\ UNCHANGED <<streamVars, producerVars, mlVars>>

\* An attempt of t ends without error, which takes that its pod was not
\* deleted under it; cleanup_resources has then deleted the generator's and
\* the stream processor's pod.
TaskSucceed(t) ==
    /\ taskState[t] = "running"
    /\ PodOf(t) \subseteq pods
    /\ taskState' = [taskState EXCEPT ![t] = "success"]
    /\ pods' = IF t = "cleanup_resources" THEN {} ELSE pods
    /\ UNCHANGED <<tries, streamVars, producerVars, mlVars>>

\* An attempt of t ends in an error: the task is tried again until its
\* retries are used up.
TaskFail(t) ==
    /\ t \in Fallible
    /\ taskState[t] = "running"
    /\ taskState' = [taskState EXCEPT ![t] =
                        IF tries[t] <= Retries THEN "up_for_retry" ELSE "failed"]
    /\ UNCHANGED <<tries, pods, streamVars, producerVars, mlVars>>

\* The scheduler gives up a task with rule all_success one of whose
\* upstream tasks failed.
TaskUpstreamFailed(t) ==
    /\ taskState[t] = "none"
    /\ TriggerRule(t) = "all_success"
    /\ \E u \in Upstream(t) : taskState[u] \in {"failed", "upstream_failed"}
    /\ taskState' = [taskState EXCEPT ![t] = "upstream_failed"]
    /\ UNCHANGED <<tries, pods, streamVars, producerVars, mlVars>>

NextDag ==
    \E t \in Tasks :
        \/ TaskStart(t)
        \/ TaskSucceed(t)
        \/ TaskFail(t)
        \/ TaskUpstreamFailed(t)

SpecDag == Init /\ [][NextDag]_vars

\* Every attempt ends ('execution_timeout': 2 hours) and the scheduler
\* keeps scheduling.
SpecDagFair == SpecDag /\ WF_vars(NextDag)

\* -------------------------------------------- validate_and_promote_models
\* F1 scores in tenths; the threshold 0.7.
MinF1 == 7
F1Scores == {6, 7, 8}
ExperimentNames == {"sensor-anomaly-detection", "default"}

\* A run as runs/search returns it: its metrics, when it has any, are a list
\* of key and value pairs under data.metrics.
MlflowRuns ==
    { [run_id |-> id, data |-> [tags |-> << >>]] : id \in {1, 2} }
    \cup { [run_id |-> id,
            data |-> [metrics |-> <<[key |-> "f1", value |-> f]>>]] :
              id \in {1, 2}, f \in F1Scores }

RunLists ==
    { << >> } \cup { <<r>> : r \in MlflowRuns }
    \cup { <<r1, r2>> : r1 \in {r \in MlflowRuns : r.run_id = 1},
                        r2 \in {r \in MlflowRuns : r.run_id = 2} }

Experiments ==
    { [name |-> n, runs |-> rs] : n \in ExperimentNames, rs \in RunLists }

ExperimentLists ==
    { <<e>> : e \in Experiments }
    \cup { <<e1, e2>> : e1 \in {e \in Experiments : e.name = "default"},
                        e2 \in {e \in Experiments : e.name # "default"} }

\* 'sensor-anomaly-detection' in experiment.get('name', '')
Matches(e) == e.name = "sensor-anomaly-detection"

\* run.get('data', {}).get('metrics', {}) followed by metrics.get('f1', 0):
\* the default {} has a get, the list runs/search returns has none.
MetricsGetRaises(run) == "metrics" \in DOMAIN run.data
RunF1(run) == 0

\* The loop over the runs of one experiment: the first run with the highest
\* f1 above 0, or none.
RECURSIVE BestRun(_, _, _)
BestRun(runs, best, bestF1) ==
    IF runs = << >> THEN [run |-> best, f1 |-> bestF1]
    ELSE IF RunF1(Head(runs)) > bestF1
         THEN BestRun(Tail(runs), <<Head(runs)>>, RunF1(Head(runs)))
         ELSE BestRun(Tail(runs), best, bestF1)

\* The loop over the experiments, results being the dictionary so far.
RECURSIVE Validate(_, _)
Validate(exps, results) ==
    IF exps = << >> THEN results
    ELSE LET e == Head(exps)
             b == BestRun(e.runs, << >>, 0)
             counted == [results EXCEPT !.models_validated = Len(e.runs)]
         IN  IF ~Matches(e) THEN Validate(Tail(exps), results)
             ELSE IF b.run # << >> /\ b.f1 > MinF1
                  THEN Validate(Tail(exps),
                                [counted EXCEPT !.models_promoted = 1,
                                                !.best = <<[f1 |-> b.f1,
                                                   run_id |-> b.run[1].run_id]>>])
                  ELSE Validate(Tail(exps), counted)

\* validate_and_promote_models: the dictionary it returns for the
\* experiments the tracking server reports; an exception anywhere gives
\* the dictionary {'error': ...}.
ValidateAndPromoteModels(exps) ==
    IF \E i \in DOMAIN exps :
          /\ Matches(exps[i])
          /\ \E j \in DOMAIN exps[i].runs : MetricsGetRaises(exps[i].runs[j])
    THEN [error |-> TRUE]
    ELSE Validate(exps, [experiments_found |-> Len(exps),
                         models_validated |-> 0,
                         models_promoted |-> 0,
                         best |-> << >>])

\* The task runs against what the tracking server holds.
Promote ==
    /\ \E exps \in ExperimentLists :
          validation' = [called |-> TRUE, experiments |-> exps,
                         result |-> ValidateAndPromoteModels(exps)]
    /\ UNCHANGED <<trainPc, trainData, trainFiles, trainRuns>>
    /\ UNCHANGED <<streamVars, producerVars, dagVars>>

NextPromote == Promote

SpecPromote == Init /\ [][NextPromote]_vars

\* ------------------------------------------------------ train_model.py main
\* DAYS_BACK = 7 and generate_synthetic_data(1000).
DaysBack == 7
SyntheticSamples == 1000

FeatureEngineerFile == "feature_engineer.pkl"
SupervisedModels == {"RandomForest", "LogisticRegression"}
UnsupervisedModels == {"IsolationForest", "OneClassSVM"}

\* What the tracking server holds of this execution: a model's run, one of
\* the two closing runs, or the pickle file as an artifact.
Logged(kind, name, by) == [kind |-> kind, name |-> name, by |-> by]
ModelRuns(names) == {Logged("model", n, "this run") : n \in names}

\* What sensor-archive holds for the last DaysBack days: no parquet object,
\* parquet objects without rows, or rows.
ArchiveContents == {"no objects", "no rows", "rows"}

\* The script is started, in a fresh directory or in one an earlier run of
\* it has left its pickle file in.
TrainLaunch ==
    /\ trainPc = "start"
    /\ trainPc' = "load"
    /\ \E dir \in {{}, {[name |-> FeatureEngineerFile, by |-> "earlier run"]}} :
          trainFiles' = dir
    /\ UNCHANGED <<validation, trainData, trainRuns>>
    /\ UNCHANGED <<streamVars, producerVars, dagVars>>

\* load_sensor_data(DAYS_BACK): with no data frame read it raises
\* ValueError, which main logs and raises again; otherwise it returns the
\* concatenated frame, and main takes the fallback when that frame is empty.
TrainLoad ==
    /\ trainPc = "load"
    /\ \E found \in ArchiveContents :
          /\ trainData' = [found |-> found,
                           frame |-> IF found = "no objects" THEN "none"
                                     ELSE "archive"]
          /\ trainPc' = CASE found = "no objects" -> "load failed"
                           [] found = "no rows" -> "fallback"
                           [] found = "rows" -> "features"
    /\ UNCHANGED <<validation, trainFiles, trainRuns>>
    /\ UNCHANGED <<streamVars, producerVars, dagVars>>

\* df = generate_synthetic_data(1000)
TrainFallback ==
    /\ trainPc = "fallback"
    /\ trainData' = [trainData EXCEPT !.frame = "synthetic"]
    /\ trainPc' = "features"
    /\ UNCHANGED <<validation, trainFiles, trainRuns>>
    /\ UNCHANGED <<streamVars, producerVars, dagVars>>

\* prepare_features, then the supervised models when there are more than
\* ten labelled anomalies, then the unsupervised ones; a model whose
\* training raises is logged and left out.
TrainModels ==
    /\ trainPc = "features"
    /\ \E enough \in BOOLEAN :
          \E sup \in SUBSET SupervisedModels, unsup \in SUBSET UnsupervisedModels :
             trainRuns' = trainRuns \cup ModelRuns(unsup)
                            \cup (IF enough THEN ModelRuns(sup) ELSE {})
    /\ trainPc' = "trained"
    /\ UNCHANGED <<validation, trainData, trainFiles>>
    /\ UNCHANGED <<streamVars, producerVars, dagVars>>

\* Run feature_preprocessor opens with mlflow.log_artifact of the pickle
\* file, before the file is written: it raises when there is no such file,
\* and logs the file of the earlier run when there is one.
TrainLogArtifactFirst ==
    /\ trainPc = "trained"
    /\ IF \E f \in trainFiles : f.name = FeatureEngineerFile
       THEN /\ trainPc' = "dump"
            /\ trainRuns' = trainRuns \cup
                  {Logged("artifact", f.name, f.by) : f \in trainFiles}
       ELSE /\ trainPc' = "artifact failed"
            /\ UNCHANGED trainRuns
    /\ UNCHANGED <<validation, trainData, trainFiles>>
    /\ UNCHANGED <<streamVars, producerVars, dagVars>>

\* pickle.dump(feature_engineer, f), then the second log_artifact, which
\* ends run feature_preprocessor.
TrainDumpAndLog ==
    /\ trainPc = "dump"
    /\ trainFiles' = {[name |-> FeatureEngineerFile, by |-> "this run"]}
    /\ trainRuns' = trainRuns \cup
          {Logged("artifact", FeatureEngineerFile, "this run"),
           Logged("run", "feature_preprocessor", "this run")}
    /\ trainPc' = "summary"
    /\ UNCHANGED <<validation, trainData>>
    /\ UNCHANGED <<streamVars, producerVars, dagVars>>

\* Run training_summary logs the parameters of the training.
TrainSummary ==
    /\ trainPc = "summary"
    /\ trainRuns' = trainRuns \cup {Logged("run", "training_summary", "this run")}
    /\ trainPc' = "done"
    /\ UNCHANGED <<validation, trainData, trainFiles>>
    /\ UNCHANGED <<streamVars, producerVars, dagVars>>

NextTrain ==
    \/ TrainLaunch
    \/ TrainLoad
    \/ TrainFallback
    \/ TrainModels
    \/ TrainLogArtifactFirst
    \/ TrainDumpAndLog
    \/ TrainSummary

SpecTrain == Init /\ [][NextTrain]_vars

\* ------------------------------------------- the three jobs side by side
CanRead_SharedSource(j) == \A i \in Jobs : inflight[i] < MaxBuffer

\* Each execute_sql(INSERT ...) is a job of its own with its own scan of
\* sensor_source: it takes the next record when its own chain has room.
CanRead(j) == inflight[j] < MaxBuffer

\* Job j reads its next record of sensor-data.
FRead(j) ==
    /\ fOffset[j] < MaxOffset
    /\ CanRead(j)
    /\ fOffset' = [fOffset EXCEPT ![j] = @ + 1]
    /\ inflight' = [inflight EXCEPT ![j] = @ + 1]
    /\ UNCHANGED <<sinkBlocked, pendingCkpts, ticks, failedCkpts, jobState, batchVars>>
    /\ UNCHANGED <<metricsVars, recoveryVars, enrichVars, archiveVars>>

\* Job j writes a record it holds to its sink.
FWrite(j) ==
    /\ inflight[j] > 0
    /\ j \notin sinkBlocked
    /\ inflight' = [inflight EXCEPT ![j] = @ - 1]
    /\ UNCHANGED <<fOffset, sinkBlocked, pendingCkpts, ticks, failedCkpts, jobState, batchVars>>
    /\ UNCHANGED <<metricsVars, recoveryVars, enrichVars, archiveVars>>

\* The store behind minio_archive stops or resumes accepting writes.
BlockArchive ==
    /\ sinkBlocked' = IF "archive" \in sinkBlocked
                      THEN sinkBlocked \ {"archive"}
                      ELSE sinkBlocked \cup {"archive"}
    /\ UNCHANGED <<fOffset, inflight, pendingCkpts, ticks, failedCkpts, jobState, batchVars>>
    /\ UNCHANGED <<metricsVars, recoveryVars, enrichVars, archiveVars>>

NextFanOut ==
    \/ \E j \in Jobs : FRead(j)
    \/ \E j \in Jobs : FWrite(j)
    \/ BlockArchive

SpecFanOut == Init /\ [][NextFanOut]_vars

\* ------------------------------------------------------ derived quantities
Emitted == BagToSet(metricsOut)
SummaryKey(s) == <<s.window_start, s.building>>
RowsOf(k) == IF k \in DOMAIN rows THEN rows[k] ELSE EmptyBag
\* How many rows of bag B satisfy the test given as the set T of rows.
CountIn(B, T) ==
    BagCardinality([e \in {x \in DOMAIN B : x \in T} |-> B[e]])

RECURSIVE SumOver(_, _)
SumOver(f, S) ==
    IF S = {} THEN 0
    ELSE LET x == CHOOSE y \in S : TRUE IN f[x] + SumOver(f, S \ {x})

TotalRead == SumOver(mOffset, Partitions)
TotalAggregated ==
    SumOver([k \in DOMAIN rows |-> BagCardinality(rows[k])], DOMAIN rows)

\* ------------------------------------------------------------------ claims

\* C1: no (window, building) pair is written to metrics_sink twice, over
\* every sequence of reads, watermark advances, checkpoints and restarts.
C1_EmittedExactlyOnce ==
    \A s1, s2 \in Emitted :
        SummaryKey(s1) = SummaryKey(s2)
           => (s1 = s2 /\ CopiesIn(s1, metricsOut) = 1)

C4_SlowestPartitionGates ==
    /\ \A p \in Partitions : mWM <= partWM[p]
    /\ \A s \in Emitted : \A p \in Partitions : s.window_end <= partWM[p]

\* C4 witness: one partition's watermark is past the end of an open window,
\* another partition's is not, and the window is still open.
C4_Witness ==
    \E k \in DOMAIN acc : \E p, q \in Partitions :
        /\ partWM[p] >= KeyEnd(k)
        /\ partWM[q] < KeyEnd(k)
        /\ \A s \in Emitted : SummaryKey(s) # k

\* C5: in every step an open accumulator is emitted and evicted exactly when
\* the watermark after the step is at or past its window-end; otherwise it
\* stays open and has no summary.
C5_ClosesAtWatermark ==
    [][ \A k \in DOMAIN acc :
          IF KeyEnd(k) <= mWM'
          THEN /\ k \notin DOMAIN acc'
               /\ \E s \in BagToSet(metricsOut') : SummaryKey(s) = k
          ELSE /\ k \in DOMAIN acc'
               /\ \A s \in BagToSet(metricsOut') : SummaryKey(s) # k ]_vars

\* C5 witness: one window was emitted at the watermark while a later window
\* of the same building is still open.
C5_Witness ==
    \E s \in Emitted : \E k \in DOMAIN acc :
        /\ KeyBuilding(k) = s.building
        /\ s.window_end <= mWM
        /\ KeyEnd(k) > mWM

\* C6: every row is grouped under exactly one key, whose window starts at a
\* multiple of 60 s, contains the row's event-time (start <= t < start + 60)
\* and carries the row's building; windows of one building do not overlap.
C6_TumblingAssignment ==
    /\ \A t \in EventTimes \cup {0, WindowSize - 1, WindowSize, 2 * WindowSize - 1} :
          /\ TumbleStart(t) % WindowSize = 0
          /\ TumbleStart(t) <= t
          /\ t < TumbleEnd(t)
          /\ TumbleEnd(t) = TumbleStart(t) + WindowSize
    /\ \A k \in DOMAIN rows : \A e \in DOMAIN rows[k] :
          /\ KeyStart(k) % WindowSize = 0
          /\ KeyStart(k) <= e.event_time
          /\ e.event_time < KeyEnd(k)
          /\ KeyBuilding(k) = e.building
          /\ \A k2 \in DOMAIN rows : e \in DOMAIN rows[k2] => k2 = k
    /\ \A k1, k2 \in DOMAIN rows :
          (k1 # k2 /\ KeyBuilding(k1) = KeyBuilding(k2))
             => (KeyEnd(k1) <= KeyStart(k2) \/ KeyEnd(k2) <= KeyStart(k1))

\* C6 witness: one building has rows in two windows, one of them holding two
\* rows that arrived out of order.
C6_Witness ==
    \E k1, k2 \in DOMAIN rows :
        /\ k1 # k2
        /\ KeyBuilding(k1) = KeyBuilding(k2)
        /\ \E e1, e2 \in DOMAIN rows[k1] : e1.event_time < e2.event_time

\* The three rows of the scenario: one anomalous, one with battery_level 15.
ScenarioRows ==
    LET r == CHOOSE x \in Readings : TRUE
        row(a, l) == [sensor_id |-> 1, event_time |-> 10,
                      temperature |-> r.temperature, humidity |-> r.humidity,
                      pressure |-> r.pressure, is_anomaly |-> a,
                      building |-> "Building_001", battery_level |-> l]
    IN  <<row(TRUE, 50), row(FALSE, 15), row(FALSE, 50)>>

ScenarioSummary ==
    Summary(<<0, "Building_001">>,
            Accumulate(Accumulate(Accumulate(EmptyAcc, ScenarioRows[1]),
                                  ScenarioRows[2]), ScenarioRows[3]))

\* C7: every emitted summary counts the rows grouped under its key:
\* sensor_count is their number, anomaly_count the number with is_anomaly,
\* low_battery_count the number with battery_level < 20, and anomaly_rate is
\* anomaly_count / sensor_count to the nearest thousandth; three rows, one
\* anomalous, one with battery 15, give 3, 1, 0.333, 1.
C7_SummaryCounts ==
    /\ \A s \in Emitted :
          LET R == RowsOf(SummaryKey(s))
          IN  /\ s.sensor_count = BagCardinality(R)
              /\ s.anomaly_count = CountIn(R, {e \in DOMAIN R : e.is_anomaly})
              /\ s.low_battery_count
                   = CountIn(R, {e \in DOMAIN R : e.battery_level < 20})
              /\ 2 * (1000 * s.anomaly_count - s.anomaly_rate * s.sensor_count)
                   <= s.sensor_count
              /\ 2 * (s.anomaly_rate * s.sensor_count - 1000 * s.anomaly_count)
                   < s.sensor_count
    /\ ScenarioSummary.sensor_count = 3
    /\ ScenarioSummary.anomaly_count = 1
    /\ ScenarioSummary.anomaly_rate = 333
    /\ ScenarioSummary.low_battery_count = 1

\* C7 witness: an emitted summary of two rows, one anomalous and one with a
\* low battery.
C7_Witness ==
    \E s \in Emitted :
        /\ s.sensor_count = 2
        /\ s.anomaly_count = 1
        /\ s.low_battery_count = 1
        /\ s.anomaly_rate = 500

\* C8: no summary is emitted with sensor_count 0 and no accumulator exists
\* without a row, so anomaly_rate is never a division by zero.
C8_NoEmptyWindow ==
    /\ \A s \in Emitted : s.sensor_count >= 1 /\ s.anomaly_rate # Undefined
    /\ \A k \in DOMAIN acc : acc[k].sensor_count >= 1

\* C8 witness: a window with a single row was emitted.
C8_Witness ==
    \E s \in Emitted : s.sensor_count = 1

\* C9 (as claimed): no accumulator is created by a row whose event-time is
\* behind the current watermark.
C9_NoWindowForEventBehindWatermark ==
    [][ \A k \in (DOMAIN acc') \ (DOMAIN acc) :
          \A e \in DOMAIN rows'[k] : e.event_time >= mWM ]_vars

\* C9 (amended): no accumulator is created for a window whose end is at or
\* before the current watermark; a row of such a window is left out.
C9_NoWindowBehindWatermark ==
    [][ /\ restarts' = restarts =>
               \A k \in (DOMAIN acc') \ (DOMAIN acc) : KeyEnd(k) > mWM
        /\ \A k \in DOMAIN acc' : KeyEnd(k) > mWM' ]_vars

\* C9 witness: a record of a window behind the watermark was left out and
\* created no accumulator, while a window ahead of the watermark is open.
C9_Witness ==
    /\ \E k \in leftOut :
          /\ k \notin DOMAIN acc
          /\ k \notin DOMAIN rows
          /\ KeyEnd(k) <= mWM
    /\ \E k \in DOMAIN acc : KeyEnd(k) > mWM

\* The fields of a source record that the enrichment reads, as the row
\* repeats them.
InputOf(r) ==
    [sensor_id |-> r.sensor_id, event_time |-> r.event_time,
     temperature |-> r.temperature, humidity |-> r.humidity,
     pressure |-> r.pressure, is_anomaly |-> r.is_anomaly]

EnrichedRows ==
    BagToSet(processedOut) \cup {a.row : a \in BagToSet(archiveOut)}

\* C10 (as claimed): two rows enriched from the same source record are
\* identical in every field.
C10_EnrichIdenticalInEveryField ==
    \A r1, r2 \in EnrichedRows : InputOf(r1) = InputOf(r2) => r1 = r2

\* C10 (amended): two rows enriched from the same source record are
\* identical in every field except processing_time.
C10_EnrichIdenticalButProcessingTime ==
    \A r1, r2 \in EnrichedRows :
        InputOf(r1) = InputOf(r2)
           => /\ r1.temp_trend = r2.temp_trend
              /\ r1.humidity_category = r2.humidity_category
              /\ r1.comfort_index = r2.comfort_index
              /\ r1.anomaly_score = r2.anomaly_score
              /\ [r1 EXCEPT !.processing_time = 0]
                    = [r2 EXCEPT !.processing_time = 0]

\* C10 witness: after a restart the enrichment job wrote the row of one
\* source record a second time, at a later processing time.
C10_Witness ==
    /\ restarts = 1
    /\ \E r1, r2 \in BagToSet(processedOut) :
          /\ InputOf(r1) = InputOf(r2)
          /\ r1.processing_time < r2.processing_time
          /\ Len(topic[r1.sensor_id]) = 1

\* C11: a run that was restored from a checkpoint and replayed the input
\* after it emits the same set of window summaries as an uninterrupted run
\* over the same input.  An uninterrupted run writes one summary for a
\* (window, building), so the summaries written for one key are all equal.
C11_RestoreReproducesUninterruptedRun ==
    restoredFrom = "checkpoint" =>
        \A s1, s2 \in Emitted : SummaryKey(s1) = SummaryKey(s2) => s1 = s2

\* C12: after a restart, an archive partition that holds its success file
\* is never written to again: no finished file is added to it.
C12_CommittedPartitionNeverRewritten ==
    [][ restarts > 0 =>
          \A q \in aMarked : FilesOf(aFiles', q) = FilesOf(aFiles, q) ]_vars

\* C13: a partition's success file is written only in a step that leaves
\* no row of the partition in a part file in progress, and load_sensor_data
\* reads a partition only when its success file exists.
C13_MarkerBeforeReadable ==
    [][ /\ \A q \in aMarked' \ aMarked : FilesOf(aInProgress', q) = << >>
        /\ \A l \in loaded' : l.marked ]_vars

\* C14: every archived row lies in the partition (date, hour) of its own
\* event_time, whatever its processing_time: rows with the same event_time
\* share a partition.
C14_PartitionFromEventTime ==
    LET archived == BagToSet(aFiles (+) aInProgress)
    IN  /\ \A r \in archived :
              PartitionOf(r) = <<r.row.event_time \div 86400,
                                 (r.row.event_time % 86400) \div 3600>>
        /\ \A r1, r2 \in archived :
              r1.row.event_time = r2.row.event_time => PartitionOf(r1) = PartitionOf(r2)

\* C14 witness: two archived rows of one event_time, enriched at different
\* processing times in an hour other than that of the event_time, in one
\* partition.
C14_Witness ==
    \E r1, r2 \in BagToSet(aFiles) :
        /\ r1.row.event_time = r2.row.event_time
        /\ r1.row.processing_time # r2.row.processing_time
        /\ PartitionOf(r1) = PartitionOf(r2)
        /\ PartitionOf(r1) # <<r1.row.processing_time \div 86400,
                               (r1.row.processing_time % 86400) \div 3600>>

\* C15: the enriched stream holds a row for every record of sensor-data the
\* enrichment job has moved past, with the sensor_id of that record; a
\* restart may write a row twice but leaves none out.
C15_OneOutputPerInput ==
    \A p \in EnrichPartitions :
        \A i \in 1..pOffset[p] :
            \E r \in BagToSet(processedOut) :
                /\ InputOf(r) = InputOf(topic[p][i])
                /\ r.sensor_id = topic[p][i].sensor_id

\* C16: the three sinks advance independently.  No job holds more records
\* than its buffer takes; while the archive sink is blocked, even with its
\* buffer full, the metrics and the enrichment job can still write what
\* they hold and read on, and the archive job reads no further record.
C16_SinksAdvanceIndependently ==
    /\ \A j \in Jobs : inflight[j] <= MaxBuffer
    /\ "archive" \in sinkBlocked =>
          \A j \in Jobs \ {"archive"} :
              /\ inflight[j] > 0 => ENABLED FWrite(j)
              /\ (fOffset[j] < MaxOffset /\ inflight[j] < MaxBuffer)
                    => ENABLED FRead(j)
    /\ inflight["archive"] = MaxBuffer => ~ ENABLED FRead("archive")

\* C16 witness: the archive sink is blocked with its buffer full and has
\* written nothing, while the other two jobs have written every record.
C16_Witness ==
    /\ "archive" \in sinkBlocked
    /\ inflight["archive"] = MaxBuffer
    /\ fOffset["archive"] = MaxBuffer
    /\ \A j \in Jobs \ {"archive"} : fOffset[j] = MaxOffset /\ inflight[j] = 0

\* C17: at most one checkpoint is in flight at any time, and an interval
\* tick that arrives while a checkpoint is in flight starts no second one,
\* however ticks, completions and the reading of records interleave.
C17_OneCheckpointInFlight ==
    [][ /\ Cardinality(pendingCkpts') <= 1
        /\ (ticks' = ticks + 1 /\ pendingCkpts # {})
              => pendingCkpts' = pendingCkpts ]_vars

\* C17 witness: the second tick arrived while the first checkpoint was in
\* flight and records were read meanwhile; the first is still the only one.
C17_Witness ==
    /\ ticks = 2
    /\ \E c \in pendingCkpts : c.id = 1 /\ c.state.offset # mOffset
    /\ Cardinality(pendingCkpts) = 1

\* C18: a failed checkpoint is not fatal: the step in which a checkpoint
\* fails leaves offsets, window state, watermark and the last completed
\* checkpoint as they are.
C18_CheckpointFailureNonFatal ==
    [][ failedCkpts' = failedCkpts + 1 =>
          /\ mOffset' = mOffset
          /\ acc' = acc
          /\ mWM' = mWM
          /\ mCheckpoint' = mCheckpoint ]_vars

\* C19: a malformed input record never aborts the stream: at the step the
\* job takes when the malformed record is the next one of a partition, the job
\* does not fail over, the record is skipped (the partition's offset moves
\* behind it) and the window state built from the well-formed records read
\* before it stays as it is.
C19_MalformedRecordSkipped ==
    [][ \A p \in Partitions :
          (AtMalformed(p) /\ mOffset'[p] # mOffset[p]) =>
              /\ restarts' = restarts
              /\ mOffset'[p] = mOffset[p] + 1
              /\ acc' = acc ]_vars

\* C20: a shutdown writes a final checkpoint before the pipeline terminates:
\* at the step that terminates the job a completed checkpoint holds the
\* job's offsets and every window accumulator open at that moment, and at the
\* step that starts the job again those accumulators are open again.
C20_ShutdownPersistsOpenWindows ==
    [][ /\ (jobState = "running" /\ jobState' = "terminated") =>
              /\ mCheckpoint'.completed
              /\ mCheckpoint'.offset = mOffset
              /\ mCheckpoint'.acc = acc
        /\ (jobState = "terminated" /\ jobState' = "running") =>
              acc' = acc ]_vars

\* C21: every record the generator publishes carries each column of
\* sensor_source as a top-level attribute, so no column of a consumed row,
\* event_time and building among them, is NULL.
C21_SourceColumnsPresent ==
    /\ \A json \in published : SourceColumns \subseteq DOMAIN json
    /\ \A r \in sourceRows : \A c \in SourceColumns : ~r[c].null

\* C22: in every row of the enriched stream and of the archive temp_trend
\* is HOT exactly when temperature > 25, COLD exactly when temperature < 18
\* and NORMAL otherwise, 25 and 18 themselves being NORMAL.
C22_TempTrendThresholds ==
    \A r \in EnrichedRows :
        /\ r.temp_trend = "HOT" <=> r.temperature > 25
        /\ r.temp_trend = "COLD" <=> r.temperature < 18
        /\ r.temp_trend = "NORMAL" <=> (18 <= r.temperature /\ r.temperature <= 25)
        /\ r.temp_trend \in {"HOT", "COLD", "NORMAL"}

\* C22 witness: the enriched stream holds a row at 25 and the archive a row
\* at 18, both NORMAL.
C22_Witness ==
    /\ \E r \in BagToSet(processedOut) :
          r.temperature = 25 /\ r.temp_trend = "NORMAL"
    /\ \E a \in BagToSet(archiveOut) :
          a.row.temperature = 18 /\ a.row.temp_trend = "NORMAL"

\* C23: in every row of the enriched stream and of the archive
\* humidity_category is HIGH exactly when humidity > 70, LOW exactly when
\* humidity < 30 and MODERATE otherwise, 70 and 30 themselves being MODERATE.
C23_HumidityCategoryThresholds ==
    \A r \in EnrichedRows :
        /\ r.humidity_category = "HIGH" <=> r.humidity > 70
        /\ r.humidity_category = "LOW" <=> r.humidity < 30
        /\ r.humidity_category = "MODERATE" <=> (30 <= r.humidity /\ r.humidity <= 70)
        /\ r.humidity_category \in {"HIGH", "LOW", "MODERATE"}

\* C23 witness: the enriched stream holds a row at 70 and the archive a row
\* at 30, both MODERATE.
C23_Witness ==
    /\ \E r \in BagToSet(processedOut) :
          r.humidity = 70 /\ r.humidity_category = "MODERATE"
    /\ \E a \in BagToSet(archiveOut) :
          a.row.humidity = 30 /\ a.row.humidity_category = "MODERATE"

\* C24: in every row comfort_index is 100 less twice the distance of the
\* temperature from 22 less half the distance of the humidity from 45 (here
\* in halves: 200, four times, once); a record at 26 degrees, 75 percent and
\* 1013 hPa is HOT, HIGH and has comfort index 77.0 (154 halves).
C24_ComfortIndexFormula ==
    \A r \in EnrichedRows :
        LET dt == IF r.temperature >= 22 THEN r.temperature - 22
                  ELSE 22 - r.temperature
            dh == IF r.humidity >= 45 THEN r.humidity - 45 ELSE 45 - r.humidity
        IN  /\ r.comfort_index + 4 * dt + dh = 200
            /\ (r.temperature = 26 /\ r.humidity = 75 /\ r.pressure = 1013)
                  => /\ r.temp_trend = "HOT"
                     /\ r.humidity_category = "HIGH"
                     /\ r.comfort_index = 154

\* C24 witness: the scenario's record was enriched, and so was a record
\* below both centres.
C24_Witness ==
    /\ \E r \in BagToSet(processedOut) :
          /\ r.temperature = 26 /\ r.humidity = 75 /\ r.pressure = 1013
          /\ r.comfort_index = 154
    /\ \E a \in BagToSet(archiveOut) :
          a.row.temperature = 17 /\ a.row.humidity = 29

\* The tasks whose order the pipeline documents, each with the tasks it
\* waits for.
StageOrder ==
    { <<"validate_infrastructure", "create_kafka_topics">>,
      <<"create_kafka_topics", "start_data_generation">>,
      <<"create_kafka_topics", "start_flink_processing">>,
      <<"start_data_generation", "monitor_data_flow">>,
      <<"start_flink_processing", "monitor_data_flow">>,
      <<"monitor_data_flow", "train_ml_models">>,
      <<"train_ml_models", "validate_and_promote_models">>,
      <<"validate_and_promote_models", "generate_performance_report">> }

\* C25: the tasks run in the documented stage order: an attempt of a task
\* starts only when every task of the stage before it has succeeded.
C25_StageOrder ==
    [][ \A o \in StageOrder :
          (taskState[o[2]] # "running" /\ taskState'[o[2]] = "running")
             => taskState[o[1]] = "success" ]_vars

\* C25 witness: the report is running, every stage before it succeeded,
\* and the generator needed a second attempt.
C25_Witness ==
    /\ taskState["generate_performance_report"] = "running"
    /\ tries["start_data_generation"] = 2
    /\ \A o \in StageOrder : taskState[o[1]] = "success"

\* C26: in every run in which validate_infrastructure was started,
\* cleanup_resources is executed in the end, whatever became of the tasks
\* before it, and the generator's and the stream processor's pods are gone.
C26_CleanupAlwaysRuns ==
    (taskState["validate_infrastructure"] # "none")
        ~> (taskState["cleanup_resources"] = "success" /\ pods = {})

\* The f1 a run has logged, 0 when it has logged none.
LoggedF1(run) ==
    IF "metrics" \in DOMAIN run.data THEN run.data.metrics[1].value ELSE 0

\* The runs of the matching experiments, and those above the threshold.
CandidateRuns(exps) ==
    { <<i, j>> \in (DOMAIN exps) \X {1, 2} :
        Matches(exps[i]) /\ j \in DOMAIN exps[i].runs }
QualifyingRuns(exps) ==
    { c \in CandidateRuns(exps) : LoggedF1(exps[c[1]].runs[c[2]]) > MinF1 }

\* C27: validate_and_promote_models reports models_promoted = 1 exactly
\* when a run of a sensor-anomaly-detection experiment has f1 above 0.7;
\* best_run_id is then a run of highest f1, and is absent otherwise.
C27_PromotesBestAboveThreshold ==
    validation.called =>
        LET exps == validation.experiments
            res == validation.result
            q == QualifyingRuns(exps)
        IN  /\ "models_promoted" \in DOMAIN res
            /\ res.models_promoted = 1 <=> q # {}
            /\ res.models_promoted = 0 <=> q = {}
            /\ q = {} => res.best = << >>
            /\ q # {} =>
                  \E c \in q :
                     /\ res.best[1].run_id = exps[c[1]].runs[c[2]].run_id
                     /\ \A j \in DOMAIN exps[c[1]].runs :
                           LoggedF1(exps[c[1]].runs[j]) <= res.best[1].f1

\* C28: when the archive holds no sensor data for the last 7 days, main
\* does not fail at loading: it goes on to feature engineering and training
\* with the synthetic samples.
C28_FallsBackToSynthetic ==
    trainData.found \in {"no objects", "no rows"} =>
        /\ trainPc # "load failed"
        /\ trainPc \notin {"load", "fallback"} => trainData.frame = "synthetic"

\* C29: every log_artifact of the pickle file logs the file this run has
\* written, none fails for want of the file, and once training has finished
\* the runs feature_preprocessor and training_summary are reached.
C29_PickleWrittenBeforeLogged ==
    /\ trainPc # "artifact failed"
    /\ \A r \in trainRuns :
          (r.kind = "artifact" /\ r.name = FeatureEngineerFile)
             => r.by = "this run"

\* The columns the two queries have in common, processing_time apart.
SharedColumns ==
    { "sensor_id", "event_time", "temperature", "humidity", "pressure",
      "temp_trend", "humidity_category", "comfort_index", "anomaly_score",
      "is_anomaly" }

\* C30: the enriched stream and the archive are the same enrichment: the
\* rows the two queries wrote for one source record agree on every shared
\* column, and once both jobs have read the topic to its end the records
\* archived are the records in the enriched stream.
C30_ArchiveEqualsEnrichedStream ==
    /\ \A r \in BagToSet(processedOut) : \A a \in BagToSet(archiveOut) :
          InputOf(r) = InputOf(a.row)
             => \A c \in SharedColumns : r[c] = a.row[c]
    /\ (\A p \in EnrichPartitions :
            pOffset[p] = Len(topic[p]) /\ aOffset[p] = Len(topic[p]))
          => {InputOf(r) : r \in BagToSet(processedOut)}
                = {InputOf(a.row) : a \in BagToSet(archiveOut)}

====
